---- MODULE Spec2Model ----
(***************************************************************************)
(* Hybrid job search of the job-portal backend: the query parser           *)
(* (services/ai_service.py), the structured search (db/mysql_db.py,        *)
(* mysql_db.py), the vector index wrapper (services/vector_service.py) and *)
(* the orchestrator search() (services/search_engine.py), and the          *)
(* endpoints of api/main.py that search or that write an entity together   *)
(* with its vector record.                                                 *)
(*                                                                         *)
(* Python values are modelled as follows.                                  *)
(*   None / absent key      <<>>            (an optional value is a        *)
(*   present value v        <<v>>            sequence of length 0 or 1)    *)
(*   text matched by LIKE   a sequence of one-character strings            *)
(*   other text             a TLA+ string                                  *)
(***************************************************************************)
EXTENDS Integers, Sequences, FiniteSets, TLC

VARIABLES
    jobs,              \* table jobs:  id -> row
    users,             \* table users: id -> row
    coll,              \* the two ChromaDB collections: kind -> (id string -> record)
    pc,                \* position of the request being served
    query,             \* search(): argument query
    search_type,       \* search(): argument search_type
    parse_ret,         \* search(): parsed_query_str, the value parse_query returned
    parse_failed,      \* parse_query took its except branch
    parsed_query,      \* search(): parsed_query
    sql_args,          \* the filter arguments Structured Search was invoked with
    sql_failed,        \* Structured Search could not reach the store
    sql_results,       \* search(): sql_results
    vec_failed,        \* the embedding provider or the index raised
    vector_results,    \* search(): vector_results (None, or the ids of the matches)
    vector_docs,       \* search(): vector_docs (None when not fetched)
    combined_results,  \* search(): combined_results
    raised,            \* an exception left the function being served
    returned,          \* the function being served returned
    last_add,          \* kind -> (id string -> document of the latest add_to_collection)
    query_ret,         \* what a direct query_collection call returned
    db_call,           \* a direct call of a Structured Search function and its outcome
    parse_call,        \* a direct call of parse_query: its input and its outcome
    current_user,      \* the token payload of the caller of the endpoint being served
    http_status,       \* the status code the endpoint being served answered with
    api_call,          \* the endpoint call being served: its name, entity and text
    applications,      \* table applications: the rows in insertion order
    job_seq,           \* the AUTO_INCREMENT counter of table jobs: the last id given
    inflight           \* the requests being served concurrently: one record each

dbVars  == <<jobs, users, applications, job_seq>>
reqVars == <<query, search_type, parse_ret, parse_failed, parsed_query, sql_args,
             sql_failed, sql_results, vec_failed, vector_results, vector_docs,
             combined_results, raised, returned>>
callVars == <<db_call, parse_call, current_user, api_call, inflight>>
extVars == <<db_call, parse_call, current_user, http_status, api_call, inflight>>
vars    == <<jobs, users, coll, pc, query, search_type, parse_ret, parse_failed,
             parsed_query, sql_args, sql_failed, sql_results, vec_failed,
             vector_results, vector_docs, combined_results, raised, returned,
             last_add, query_ret, db_call, parse_call, current_user, http_status,
             api_call, applications, job_seq, inflight>>

(***************************************************************************)
(* Bounds of the model.                                                    *)
(***************************************************************************)
\* Rows ever inserted into jobs and users together (AUTO_INCREMENT ids 1..n).
MaxPosted == 6
\* Identifiers "1".."MaxVecIds" passed to add_to_collection in VectorSpec.
MaxVecIds == 2
\* Ids 1..MaxMergeIds of the rows, and the longest match list, in MergeSpec.
MaxMergeIds == 3

\* Jobs posted in ApiSpec.
MaxApiJobs == 2
\* Users that register with the endpoints.
MaxApiUsers == 3
\* Requests served at the same time in ConcSpec.
MaxInflight == 2

\* Rows 1..MaxRows that a table holds in StructuredSpec.
MaxRows == 3

\* n_results: int = 5 of query_collection.
DefaultNResults == 5

None == <<>>
Some(v) == <<v>>
IsNone(o) == o = <<>>
Val(o) == o[1]

Min(a, b) == IF a <= b THEN a ELSE b

Kinds == {"jobs", "candidates"}

(***************************************************************************)
(* Text that SQL LIKE inspects: sequences of characters.                   *)
(***************************************************************************)
Austin     == <<"A", "u", "s", "t", "i", "n">>
austin     == <<"a", "u", "s", "t", "i", "n">>
Boston     == <<"B", "o", "s", "t", "o", "n">>
python     == <<"p", "y", "t", "h", "o", "n">>
sql        == <<"s", "q", "l">>
comma      == <<",">>
remote     == <<"r", "e", "m", "o", "t", "e">>
Remote     == <<"R", "e", "m", "o", "t", "e">>
FullTime   == <<"F", "u", "l", "l">>
years      == <<" ", "y", "e", "a", "r", "s">>

\* str(i) of a positive integer below 10, and its inverse int(s).
DigitStr == <<"1", "2", "3", "4", "5", "6", "7", "8", "9">>
StrOf(i) == DigitStr[i]
IsDigit(s) == \E i \in DOMAIN DigitStr : DigitStr[i] = s
IntOf(s) == CHOOSE i \in DOMAIN DigitStr : DigitStr[i] = s

\* The collation of the tables compares letters without regard to case.
Lower(c) ==
    CASE c = "A" -> "a"
      [] c = "B" -> "b"
      [] c = "F" -> "f"
      [] c = "R" -> "r"
      [] OTHER -> c

LowerSeq(s) == [i \in DOMAIN s |-> Lower(s[i])]

\* hay LIKE '%needle%'
Like(hay, needle) ==
    \E i \in 0..(Len(hay) - Len(needle)) :
        LowerSeq(SubSeq(hay, i + 1, i + Len(needle))) = LowerSeq(needle)

(***************************************************************************)
(* The relational store.  The rows a table can hold are fixed per id; a    *)
(* SELECT without ORDER BY on these InnoDB tables reads the clustered      *)
(* index, so rows come back by ascending primary key.                      *)
(***************************************************************************)
JobRow(i) ==
    CASE i % 3 = 1 ->
           [id |-> i, recruiter_id |-> 1, title |-> "job " \o StrOf(i),
            location |-> Some(Austin),
            employmentType |-> Some(Remote),
            description |-> Some(<<"5">> \o years),
            skills |-> Some(python \o comma \o sql),
            minSalary |-> Some(90), maxSalary |-> Some(120)]
      [] i % 3 = 2 ->
           [id |-> i, recruiter_id |-> 1, title |-> "job " \o StrOf(i),
            location |-> Some(Boston),
            employmentType |-> Some(FullTime),
            description |-> None,
            skills |-> Some(sql),
            minSalary |-> Some(50), maxSalary |-> Some(60)]
      [] OTHER ->
           [id |-> i, recruiter_id |-> 1, title |-> "job " \o StrOf(i),
            location |-> Some(Austin),
            employmentType |-> Some(FullTime),
            description |-> Some(<<"5">> \o years),
            skills |-> Some(python),
            minSalary |-> Some(50), maxSalary |-> Some(120)]

UserRow(i) ==
    CASE i % 3 = 1 ->
           [id |-> i, user_type |-> "recruiter", name |-> None, location |-> None,
            skills |-> None]
      [] i % 3 = 2 ->
           [id |-> i, user_type |-> "jobseeker", name |-> None, location |-> Some(Austin),
            skills |-> Some(<<python>>)]
      [] OTHER ->
           [id |-> i, user_type |-> "jobseeker", name |-> None, location |-> None,
            skills |-> None]

RECURSIVE SortedIds(_)
SortedIds(S) ==
    IF S = {} THEN <<>>
    ELSE LET m == CHOOSE x \in S : \A y \in S : x <= y
         IN  <<m>> \o SortedIds(S \ {m})

\* cursor.fetchall() of a SELECT over table tbl, matching being the ids of the
\* rows that satisfy its WHERE clause.
Select(tbl, matching) ==
    LET ids == SortedIds(matching)
    IN  [k \in DOMAIN ids |-> tbl[ids[k]]]

\* Python truthiness of an optional text, number or list.
TruthySeq(o) == ~IsNone(o) /\ Val(o) # <<>>
TruthyInt(o) == ~IsNone(o) /\ Val(o) # 0

\* column LIKE %s, with a NULL column never matching.
ColLike(col, needle) == ~IsNone(col) /\ Like(Val(col), needle)
ColGeq(col, n) == ~IsNone(col) /\ Val(col) >= n

\* The skills loop joining its comparisons with OR: one skill found is enough.
JobsWhere_AnySkill(row, location, salary, experience, skills, job_type) ==
    /\ TruthySeq(location) => ColLike(row.location, Val(location))
    /\ TruthyInt(salary) =>
           (ColGeq(row.minSalary, Val(salary)) \/ ColGeq(row.maxSalary, Val(salary)))
    /\ TruthyInt(experience) =>
           ColLike(row.description, <<StrOf(Val(experience))>> \o years)
    /\ TruthySeq(skills) =>
           \E k \in DOMAIN Val(skills) : ColLike(row.skills, Val(skills)[k])
    /\ TruthySeq(job_type) => ColLike(row.employmentType, Val(job_type))

\* The WHERE clause search_jobs builds: one comparison per truthy argument.
JobsWhere(row, location, salary, experience, skills, job_type) ==
    /\ TruthySeq(location) => ColLike(row.location, Val(location))
    /\ TruthyInt(salary) =>
           (ColGeq(row.minSalary, Val(salary)) \/ ColGeq(row.maxSalary, Val(salary)))
    /\ TruthyInt(experience) =>
           ColLike(row.description, <<StrOf(Val(experience))>> \o years)
    /\ TruthySeq(skills) =>
           \A k \in DOMAIN Val(skills) : ColLike(row.skills, Val(skills)[k])
    /\ TruthySeq(job_type) => ColLike(row.employmentType, Val(job_type))

\* What the store does for one call: create_connection returns a connection
\* and the statement runs ("ok"), create_connection returns None
\* ("no_connection"), or cursor.execute raises mysql.connector.Error
\* ("query_error").
StoreOutcomes == {"ok", "no_connection", "query_error"}

\* The try block without its except clause: the error leaves the function.
StructuredOutcome_Uncaught(db, rows) ==
    [raised |-> db = "query_error", ret |-> IF db = "ok" THEN rows ELSE <<>>]

\* if conn is None: return [] ... try: execute, return fetchall()
\* except mysql.connector.Error: return [] -- rows being what fetchall() gives.
StructuredOutcome(db, rows) ==
    [raised |-> FALSE, ret |-> IF db = "ok" THEN rows ELSE <<>>]

\* search_jobs, the store behaving as db.
search_jobs(tbl, db, location, salary, experience, skills, job_type) ==
    StructuredOutcome(db, Select(tbl, {i \in DOMAIN tbl :
        JobsWhere(tbl[i], location, salary, experience, skills, job_type)})).ret

\* JSON_CONTAINS(skills, '"skill"')
JsonContains(col, skill) ==
    ~IsNone(col) /\ \E k \in DOMAIN Val(col) : Val(col)[k] = skill

CandidatesWhere(row, location, skills) ==
    /\ row.user_type = "jobseeker"
    /\ TruthySeq(location) => ColLike(row.location, Val(location))
    /\ TruthySeq(skills) =>
           \A k \in DOMAIN Val(skills) : JsonContains(row.skills, Val(skills)[k])

search_candidates(tbl, db, location, skills) ==
    StructuredOutcome(db, Select(tbl, {i \in DOMAIN tbl :
        CandidatesWhere(tbl[i], location, skills)})).ret

\* {x : x occurs in sequence s}
Range(s) == {s[k] : k \in DOMAIN s}

\* get_jobs_by_ids / get_candidates_by_ids: SELECT * ... WHERE id IN (ids)
get_by_ids(tbl, db, ids) ==
    StructuredOutcome(db, Select(tbl, {i \in DOMAIN tbl : tbl[i].id \in Range(ids)})).ret

\* The fetch answering with a row for every identifier asked for, in the table
\* or not.
get_jobs_by_ids_Unchecked(tbl, db, ids) == [k \in DOMAIN ids |-> JobRow(ids[k])]
get_jobs_by_ids(tbl, db, ids) == get_by_ids(tbl, db, ids)
get_candidates_by_ids(tbl, db, ids) == get_by_ids(tbl, db, ids)

(***************************************************************************)
(* The language model's answer and json.loads.                             *)
(*                                                                         *)
(* A text is [fenced, kind, obj, inner]: kind says what the text holds     *)
(* ("empty", "malformed", or the JSON value it encodes: "object",          *)
(* "number", "string"); fenced, whether it is wrapped in ```json ... ```;  *)
(* obj, the object encoded (by the text, or by the content of the encoded  *)
(* string); inner, for a string, what the string's content encodes.        *)
(* A Python value is [t, d, inner]: t its type ("dict", "int", "str"),     *)
(* d the dict, inner what the content of a str encodes.                    *)
(***************************************************************************)
Dict(location, salary, experience, skills, job_type, semantic_query) ==
    [location |-> location, salary |-> salary, experience |-> experience,
     skills |-> skills, job_type |-> job_type, semantic_query |-> semantic_query]

\* Every key null.
NullDict == Dict(None, None, None, None, None, None)

\* The answer of the spec's scenario "remote python job in Austin".
ScenarioDict == Dict(Some(austin), None, None, Some(<<python>>), Some(remote), Some("job"))

\* Salary and experience extracted, nothing left for the semantic query.
NumbersDict == Dict(None, Some(100), Some(5), Some(<<>>), None, Some(""))

LMDicts == {ScenarioDict, NullDict, NumbersDict}

Text(fenced, kind, obj, inner) ==
    [fenced |-> fenced, kind |-> kind, obj |-> obj, inner |-> inner]

LMTexts ==
    {Text(FALSE, "empty", NullDict, "none"), Text(FALSE, "malformed", NullDict, "none"),
     Text(FALSE, "number", NullDict, "none"), Text(FALSE, "string", NullDict, "number")}
    \cup {Text(f, "object", d, "none") : f \in BOOLEAN, d \in LMDicts}
    \cup {Text(FALSE, "string", d, "object") : d \in {ScenarioDict, NullDict}}

\* What model.generate_content does: raise, or answer with a text.
LMOutcomes ==
    {[raises |-> TRUE, text |-> Text(FALSE, "empty", NullDict, "none")]}
    \cup {[raises |-> FALSE, text |-> t] : t \in LMTexts}

PyDict(d) == [t |-> "dict", d |-> d, inner |-> "none"]
PyInt == [t |-> "int", d |-> NullDict, inner |-> "none"]
PyStr(d, inner) == [t |-> "str", d |-> d, inner |-> inner]

\* The text a str holds.
StrContent(v) == Text(FALSE, v.inner, v.d, "none")

\* s.replace("```json", "").replace("```", "").strip()
StripFences(text) == [text EXCEPT !.fenced = FALSE]

\* json.loads(text): [ok, val]; ok = FALSE stands for json.JSONDecodeError.
json_loads(text) ==
    IF text.fenced \/ text.kind \in {"empty", "malformed", "none"}
    THEN [ok |-> FALSE, val |-> PyInt]
    ELSE [ok |-> TRUE,
          val |-> CASE text.kind = "object" -> PyDict(text.obj)
                    [] text.kind = "number" -> PyInt
                    [] OTHER -> PyStr(text.obj, text.inner)]

\* parse_query took its except branch.
ParseFails(lm) == lm.raises \/ ~json_loads(lm.text).ok

\* The default structure parse_query returns from its except branch.
ParseFallback(q) == Dict(None, None, None, Some(<<>>), None, Some(q))

\* parse_query(query), the language model behaving as lm.
parse_query(q, lm) ==
    IF ParseFails(lm) THEN PyDict(ParseFallback(q)) ELSE json_loads(lm.text).val

\* {"semantic_query": query}
SearchFallback(q) == Dict(None, None, None, None, None, Some(q))

\* search(), step 1: from parsed_query_str to parsed_query.
\* A value without .replace raises AttributeError, caught with JSONDecodeError.
LoadParsedQuery(q, parsed_query_str) ==
    IF parsed_query_str.t # "str" THEN PyDict(SearchFallback(q))
    ELSE LET r == json_loads(StripFences(StrContent(parsed_query_str)))
         IN  IF r.ok THEN r.val ELSE PyDict(SearchFallback(q))

\* Python truthiness of an optional str.
TruthyStr(o) == ~IsNone(o) /\ Val(o) # ""

(***************************************************************************)
(* The vector index.                                                       *)
(***************************************************************************)
\* embedding_model.encode(text).tolist(): a function of the text alone.
generate_embeddings(text) == <<Len(text), Len(text) % 2>>

EmptyMeta == <<>>

Record(document, metadata) ==
    [embedding |-> generate_embeddings(document), document |-> document,
     metadata |-> IF IsNone(metadata) THEN EmptyMeta ELSE Val(metadata)]

\* collection.add(ids=[doc_id], ...): an id the collection already holds is
\* left as it is (ChromaDB ignores the add of an existing id).
CollectionAdd(c, doc_id, record) ==
    IF doc_id \in DOMAIN c THEN c
    ELSE [x \in DOMAIN c \cup {doc_id} |-> IF x = doc_id THEN record ELSE c[x]]

\* add_to_collection(collection, doc_id, document, metadata)
add_to_collection(c, doc_id, document, metadata) ==
    CollectionAdd(c, doc_id, Record(document, metadata))

\* The sequences of k distinct elements of S.
RECURSIVE Arrangements(_, _)
Arrangements(S, k) ==
    IF k = 0 THEN {<<>>}
    ELSE UNION {{<<x>> \o t : t \in Arrangements(S \ {x}, k - 1)} : x \in S}

\* collection.query(query_embeddings=[e], n_results=n)["ids"][0]: the ids of the
\* n nearest records, nearest first.  Which records are nearest is decided by
\* the embedding model, so every ranking is possible.
CollectionQuery(c, n) == Arrangements(DOMAIN c, Min(n, Cardinality(DOMAIN c)))

\* query_collection passing no n_results on: every record is returned.
query_collection_All(c, query_text, n_results) ==
    CollectionQuery(c, Cardinality(DOMAIN c))

\* query_collection(collection, query_text, n_results): the possible results.
query_collection(c, query_text, n_results) ==
    CollectionQuery(c, IF IsNone(n_results) THEN DefaultNResults ELSE Val(n_results))

(***************************************************************************)
(* search(), step 4: merge.                                                *)
(***************************************************************************)
\* [int(id_str) for id_str in ids if id_str.isdigit()]
VectorIds(ids) ==
    LET digits == SelectSeq(ids, IsDigit)
    IN  [k \in DOMAIN digits |-> IntOf(digits[k])]

\* {result['id'] for result in results}
IdsOf(results) == {results[k].id : k \in DOMAIN results}

\* The loop without its test: every fetched row is appended.
AppendNew_NoDedup(combined, docs) == combined \o docs

\* The loop putting the rows it adds in front of the list.
AppendNew_Front(combined, docs) ==
    SelectSeq(docs, LAMBDA doc : doc.id \notin {combined[k].id : k \in DOMAIN combined})
        \o combined

\* for doc in vector_docs: if doc['id'] not in combined_ids: append, add
RECURSIVE AppendNew(_, _)
AppendNew(combined, docs) ==
    IF docs = <<>> THEN combined
    ELSE AppendNew(IF Head(docs).id \in IdsOf(combined) THEN combined
                   ELSE Append(combined, Head(docs)),
                   Tail(docs))

\* The rows fetched for the vector matches: None when no fetch is made.
FetchVectorDocs(kind, vresults, db) ==
    IF IsNone(vresults) \/ Val(vresults) = <<>> \/ VectorIds(Val(vresults)) = <<>>
    THEN None
    ELSE Some(IF kind = "jobs"
              THEN get_jobs_by_ids(jobs, db, VectorIds(Val(vresults)))
              ELSE get_candidates_by_ids(users, db, VectorIds(Val(vresults))))

\* The merge adding the fetched rows only when Structured Search found nothing.
Combine_WhenNoSql(sqlres, vdocs) ==
    IF IsNone(vdocs) \/ sqlres # <<>> THEN sqlres ELSE Val(vdocs)

\* combined_results as search() returns it.
Combine(sqlres, vdocs) ==
    IF IsNone(vdocs) THEN sqlres ELSE AppendNew(sqlres, Val(vdocs))

(***************************************************************************)
(* Documents of the collections.                                           *)
(***************************************************************************)
JobDoc(i) == "Title: job " \o StrOf(i)
CandidateDoc(i) == "Name: user " \o StrOf(i)
EntityDoc(kind, i) == IF kind = "jobs" THEN JobDoc(i) ELSE CandidateDoc(i)

Docs == {"Title: dev", "Title: senior dev"}
Metas == {None, Some([title |-> "dev"])}
VecIds == {StrOf(i) : i \in 1..MaxVecIds}

\* The collection of a kind holding the entity's document under str(i) for
\* every i of ids, and the record of vector_service's example run when demo.
CollectionOf(kind, ids, demo, demo_id, demo_doc) ==
    [x \in {StrOf(i) : i \in ids} \cup (IF demo THEN {demo_id} ELSE {}) |->
        IF x = demo_id THEN Record(demo_doc, Some([title |-> "demo"]))
        ELSE Record(EntityDoc(kind, IntOf(x)), None)]

(***************************************************************************)
(* Initial states.                                                         *)
(***************************************************************************)
IdleRequest ==
    /\ pc = "idle"
    /\ query = ""
    /\ search_type = "jobs"
    /\ parse_ret = None
    /\ parse_failed = FALSE
    /\ parsed_query = None
    /\ sql_args = None
    /\ sql_failed = FALSE
    /\ sql_results = <<>>
    /\ vec_failed = FALSE
    /\ vector_results = None
    /\ vector_docs = None
    /\ combined_results = <<>>
    /\ raised = FALSE
    /\ returned = FALSE
    /\ query_ret = None
    /\ db_call = None
    /\ parse_call = None
    /\ current_user = None
    /\ http_status = None
    /\ api_call = None
    /\ inflight = <<>>

\* A store as the endpoints leave it: user 1, a recruiter, has posted jobs
\* 1..nJobs, of which at most one was deleted again (its vector record stays);
\* the jobseekers among users 1..nUsers have a record in the candidates
\* collection; the example run of vector_service.py may have added its records.
Init ==
    /\ IdleRequest
    /\ \E nJobs \in 0..MaxPosted, nUsers \in 0..MaxPosted, demo \in BOOLEAN :
         /\ nJobs + nUsers <= MaxPosted
         /\ nJobs > 0 => nUsers > 0
         /\ \E deleted \in {{}} \cup {{i} : i \in 1..nJobs} :
                jobs = [i \in (1..nJobs) \ deleted |-> JobRow(i)]
         /\ users = [i \in 1..nUsers |-> UserRow(i)]
         /\ applications = <<>>
         /\ job_seq = nJobs
         /\ coll = [k \in Kinds |->
                IF k = "jobs"
                THEN CollectionOf(k, 1..nJobs, demo, "job_123", "demo job")
                ELSE CollectionOf(k, {i \in 1..nUsers : UserRow(i).user_type = "jobseeker"},
                                  demo, "candidate_456", "demo candidate")]
         /\ last_add = [k \in Kinds |-> <<>>]

\* The state after construction: empty tables, empty collections.
VectorInit ==
    /\ IdleRequest
    /\ jobs = <<>>
    /\ users = <<>>
    /\ applications = <<>>
    /\ job_seq = 0
    /\ coll = [k \in Kinds |-> <<>>]
    /\ last_add = [k \in Kinds |-> <<>>]

(***************************************************************************)
(* search(query, search_type), one step per external call.                 *)
(***************************************************************************)
Queries == {"", "remote python job in Austin"}

\* user_type ENUM('jobseeker', 'recruiter'), as login writes it into the token.
UserTypes == {"jobseeker", "recruiter"}

\* The two search endpoints and the search_type each passes to search().
SearchEndpoints == {"search_jobs_endpoint", "search_candidates_endpoint"}
SearchTypeOf(endpoint) == IF endpoint = "search_jobs_endpoint" THEN "jobs" ELSE "candidates"

\* The endpoints without their test of the caller's user_type.
AccessDenied_Never(endpoint, user_type) == FALSE

\* if current_user["user_type"] != "jobseeker" (search_jobs_endpoint),
\* if current_user["user_type"] != "recruiter" (search_candidates_endpoint)
AccessDenied(endpoint, user_type) ==
    IF endpoint = "search_jobs_endpoint"
    THEN user_type # "jobseeker"
    ELSE user_type # "recruiter"

\* The status an endpoint call ends with; a call of search() that no endpoint
\* made has none.
EndpointStatus(status) == IF IsNone(api_call) THEN http_status ELSE Some(status)

\* POST /search/jobs, POST /search/candidates: a caller of the wrong user_type
\* is answered 403, otherwise search(query.query, search_type=...) is called.
\* Of the token the endpoints read user_type only.
StartSearch ==
    /\ pc = "idle"
    /\ \E endpoint \in SearchEndpoints, user_type \in UserTypes, q \in Queries :
         /\ api_call' = Some([fn |-> endpoint, kind |-> SearchTypeOf(endpoint)])
         /\ current_user' = Some([user_type |-> user_type])
         /\ IF AccessDenied(endpoint, user_type)
            THEN /\ http_status' = Some(403)
                 /\ pc' = "done"
                 /\ UNCHANGED <<query, search_type>>
            ELSE /\ query' = q
                 /\ search_type' = SearchTypeOf(endpoint)
                 /\ pc' = "parse"
                 /\ UNCHANGED http_status
    /\ UNCHANGED <<dbVars, db_call, parse_call, inflight, coll, parse_ret, parse_failed,
                   parsed_query, sql_args,
                   sql_failed, sql_results, vec_failed, vector_results, vector_docs,
                   combined_results, raised, returned, last_add, query_ret>>

\* Step 1: parse_query, then the try block of search().  parse_query waits in
\* model.generate_content(prompt), called without a deadline: the step is
\* taken when the language model answers or the client raises.
ParseStep ==
    /\ pc = "parse"
    /\ \E lm \in LMOutcomes :
         /\ parse_ret' = Some(parse_query(query, lm))
         /\ parse_failed' = ParseFails(lm)
         /\ parsed_query' = Some(LoadParsedQuery(query, parse_query(query, lm)))
    /\ pc' = "sql"
    /\ UNCHANGED <<dbVars, extVars, coll, query, search_type, sql_args, sql_failed, sql_results,
                   vec_failed, vector_results, vector_docs, combined_results, raised,
                   returned, last_add, query_ret>>

\* Step 2: Structured Search.  parsed_query.get raises AttributeError when
\* json.loads gave something that is no dict.
StructuredStep ==
    /\ pc = "sql"
    /\ IF Val(parsed_query).t # "dict"
       THEN /\ raised' = TRUE
            /\ http_status' = EndpointStatus(500)
            /\ pc' = "done"
            /\ UNCHANGED <<sql_args, sql_failed, sql_results>>
       ELSE LET d == Val(parsed_query).d IN
            \E db \in StoreOutcomes :
              /\ sql_args' = Some(IF search_type = "jobs"
                                  THEN [d EXCEPT !.semantic_query = None]
                                  ELSE [NullDict EXCEPT !.location = d.location,
                                                        !.skills = d.skills])
              /\ sql_failed' = (db # "ok")
              /\ sql_results' =
                    IF search_type = "jobs"
                    THEN search_jobs(jobs, db, d.location, d.salary, d.experience,
                                     d.skills, d.job_type)
                    ELSE search_candidates(users, db, d.location, d.skills)
              /\ pc' = "vector"
              /\ UNCHANGED <<raised, http_status>>
    /\ UNCHANGED <<dbVars, callVars, coll, query, search_type, parse_ret, parse_failed,
                   parsed_query, vec_failed, vector_results, vector_docs,
                   combined_results, returned, last_add, query_ret>>

\* Every search querying the collection of job descriptions.
CollectionFor_Jobs(kind) == "jobs"

\* job_descriptions_collection if search_type == "jobs" else
\* candidate_profiles_collection
CollectionFor(kind) == IF kind = "jobs" THEN "jobs" ELSE "candidates"

\* Step 3: the vector search; an exception of generate_embeddings or of
\* collection.query leaves search().
VectorStep ==
    /\ pc = "vector"
    /\ IF TruthyStr(Val(parsed_query).d.semantic_query)
       THEN \E ok \in BOOLEAN :
              IF ok
              THEN /\ \E ids \in query_collection(coll[CollectionFor(search_type)],
                                    Val(Val(parsed_query).d.semantic_query), None) :
                         vector_results' = Some(ids)
                   /\ pc' = "merge"
                   /\ UNCHANGED <<vec_failed, raised, http_status>>
              ELSE /\ vec_failed' = TRUE
                   /\ raised' = TRUE
                   /\ http_status' = EndpointStatus(500)
                   /\ pc' = "done"
                   /\ UNCHANGED vector_results
       ELSE /\ vector_results' = None
            /\ pc' = "merge"
            /\ UNCHANGED <<vec_failed, raised, http_status>>
    /\ UNCHANGED <<dbVars, callVars, coll, query, search_type, parse_ret, parse_failed,
                   parsed_query, sql_args, sql_failed, sql_results, vector_docs,
                   combined_results, returned, last_add, query_ret>>

\* Step 4: fetch the rows of the vector matches, merge, return.
MergeStep ==
    /\ pc = "merge"
    /\ \E db \in StoreOutcomes :
         /\ vector_docs' = FetchVectorDocs(search_type, vector_results, db)
         /\ combined_results' =
                Combine(sql_results, FetchVectorDocs(search_type, vector_results, db))
    /\ returned' = TRUE
    /\ http_status' = EndpointStatus(200)
    /\ pc' = "done"
    /\ UNCHANGED <<dbVars, callVars, coll, query, search_type, parse_ret, parse_failed,
                   parsed_query, sql_args, sql_failed, sql_results, vec_failed,
                   vector_results, raised, last_add, query_ret>>

(***************************************************************************)
(* Direct calls of the vector service.                                     *)
(***************************************************************************)
NResultsArgs == {None} \cup {Some(n) : n \in 1..(DefaultNResults + 1)}

\* query_collection(collection, text, n_results) or query_collection(collection, text)
QueryCollection ==
    /\ pc = "idle"
    /\ \E kind \in Kinds, n \in NResultsArgs, ok \in BOOLEAN :
         IF ok
         THEN /\ \E ids \in query_collection(coll[kind], "text", n) :
                    query_ret' = Some([kind |-> kind, n_results |-> n, ids |-> ids])
              /\ returned' = TRUE
              /\ UNCHANGED <<vec_failed, raised>>
         ELSE /\ vec_failed' = TRUE
              /\ raised' = TRUE
              /\ UNCHANGED <<query_ret, returned>>
    /\ pc' = "done"
    /\ UNCHANGED <<dbVars, extVars, coll, query, search_type, parse_ret, parse_failed,
                   parsed_query, sql_args, sql_failed, sql_results, vector_results,
                   vector_docs, combined_results, last_add>>

\* parse_query(query) called on its own, the language model behaving as lm.
CallParseQuery ==
    /\ pc = "idle"
    /\ \E q \in Queries, lm \in LMOutcomes :
         parse_call' = Some([query |-> q, lm |-> lm, failed |-> ParseFails(lm),
                             ret |-> parse_query(q, lm)])
    /\ pc' = "done"
    /\ UNCHANGED <<dbVars, coll, reqVars, last_add, query_ret, db_call, inflight, current_user,
                   http_status, api_call>>

\* add_to_collection(collection, doc_id, document, metadata); generate_embeddings
\* may raise, and then nothing is added.
AddToCollection ==
    /\ pc = "idle"
    /\ \E kind \in Kinds, doc_id \in VecIds, document \in Docs, metadata \in Metas,
          ok \in BOOLEAN :
         IF ok
         THEN /\ coll' = [coll EXCEPT
                    ![kind] = add_to_collection(coll[kind], doc_id, document, metadata)]
              /\ last_add' = [last_add EXCEPT ![kind] =
                    [x \in DOMAIN last_add[kind] \cup {doc_id} |->
                        IF x = doc_id THEN document ELSE last_add[kind][x]]]
              /\ raised' = FALSE
         ELSE /\ raised' = TRUE
              /\ UNCHANGED <<coll, last_add>>
    /\ UNCHANGED <<dbVars, extVars, pc, query, search_type, parse_ret, parse_failed,
                   parsed_query, sql_args, sql_failed, sql_results, vec_failed,
                   vector_results, vector_docs, combined_results, returned, query_ret>>

Next ==
    \/ StartSearch
    \/ ParseStep
    \/ StructuredStep
    \/ VectorStep
    \/ MergeStep
    \/ QueryCollection
    \/ CallParseQuery

Spec == Init /\ [][Next]_vars

\* The steps search() takes by itself are taken; the answer of the language
\* model, which ParseStep waits for, is not the program's to give.
LiveSpec ==
    Spec /\ WF_vars(StructuredStep) /\ WF_vars(VectorStep) /\ WF_vars(MergeStep)

(***************************************************************************)
(* Step 4 of search() on its own: the structured results are the rows a    *)
(* WHERE clause selected, the vector matches any list of identifiers       *)
(* (repeated, unknown to the table or not numeric ones included).          *)
(***************************************************************************)
BoundedSeqs(S, n) == UNION {[1..k -> S] : k \in 0..n}

MergeIdStrs == {StrOf(i) : i \in 1..MaxMergeIds} \cup {"job_123"}

MergeInit ==
    /\ pc = "merge"
    /\ query = "remote python job in Austin"
    /\ parse_ret = None
    /\ parse_failed = FALSE
    /\ parsed_query = None
    /\ sql_args = None
    /\ sql_failed = FALSE
    /\ vec_failed = FALSE
    /\ vector_docs = None
    /\ combined_results = <<>>
    /\ raised = FALSE
    /\ returned = FALSE
    /\ query_ret = None
    /\ db_call = None
    /\ parse_call = None
    /\ current_user = None
    /\ http_status = None
    /\ api_call = None
    /\ inflight = <<>>
    /\ coll = [k \in Kinds |-> <<>>]
    /\ last_add = [k \in Kinds |-> <<>>]
    /\ search_type \in Kinds
    /\ applications = <<>>
    /\ job_seq = MaxMergeIds
    /\ \E present \in SUBSET (1..MaxMergeIds), n \in 0..MaxMergeIds :
         /\ jobs = [i \in (IF search_type = "jobs" THEN present ELSE 1..MaxMergeIds)
                      |-> JobRow(i)]
         /\ users = [i \in 1..(IF search_type = "jobs" THEN MaxMergeIds ELSE n)
                      |-> UserRow(i)]
    /\ \E selected \in SUBSET (1..MaxMergeIds) :
         sql_results =
            IF search_type = "jobs"
            THEN Select(jobs, selected \cap DOMAIN jobs)
            ELSE Select(users, {i \in selected \cap DOMAIN users :
                                    users[i].user_type = "jobseeker"})
    /\ vector_results \in {None} \cup {Some(ids) : ids \in BoundedSeqs(MergeIdStrs, MaxMergeIds)}

MergeSpec == MergeInit /\ [][MergeStep]_vars

VectorNext == AddToCollection

VectorSpec == VectorInit /\ [][VectorNext]_vars

(***************************************************************************)
(* Structured Search called on its own: each of the four functions, with   *)
(* filters drawn from the values a ParsedQuery can carry (absent, empty or *)
(* zero, and values that select some rows and not others), against tables  *)
(* of up to MaxRows rows per kind and a store behaving in each way.        *)
(***************************************************************************)
LocationArgs == {None, Some(<<>>), Some(austin), Some(Boston)}
SalaryArgs == {None, Some(0), Some(100)}
ExperienceArgs == {None, Some(0), Some(5)}
SkillsArgs == {None, Some(<<>>), Some(<<python>>), Some(<<sql>>), Some(<<python, sql>>)}
JobTypeArgs == {None, Some(remote)}
IdArgs == BoundedSeqs(1..(MaxRows + 1), 2)

StructuredInit ==
    /\ IdleRequest
    /\ \E present \in SUBSET (1..MaxRows) : jobs = [i \in present |-> JobRow(i)]
    /\ \E n \in 0..MaxRows : users = [i \in 1..n |-> UserRow(i)]
    /\ applications = <<>>
    /\ job_seq = MaxRows
    /\ coll = [k \in Kinds |-> <<>>]
    /\ last_add = [k \in Kinds |-> <<>>]

\* The record of a call: the function, its arguments, what the store did, the
\* tables before the call, whether an exception left it and what it returned
\* (out: the outcome of the function's connection test and try block).
DbCall(fn, args, db, out) ==
    Some([fn |-> fn, args |-> args, db |-> db, before |-> <<jobs, users>>,
          raised |-> out.raised, ret |-> out.ret])

\* search_jobs(location, salary, experience, skills, job_type)
CallSearchJobs ==
    /\ pc = "idle"
    /\ \E location \in LocationArgs, salary \in SalaryArgs, experience \in ExperienceArgs,
          skills \in SkillsArgs, job_type \in JobTypeArgs, db \in StoreOutcomes :
         db_call' = DbCall("search_jobs",
                           Dict(location, salary, experience, skills, job_type, None), db,
                           StructuredOutcome(db,
                               search_jobs(jobs, db, location, salary, experience,
                                           skills, job_type)))
    /\ pc' = "done"
    /\ UNCHANGED <<dbVars, coll, reqVars, last_add, query_ret, parse_call, inflight, current_user,
                   http_status, api_call>>

\* search_candidates(location, skills)
CallSearchCandidates ==
    /\ pc = "idle"
    /\ \E location \in LocationArgs, skills \in SkillsArgs, db \in StoreOutcomes :
         db_call' = DbCall("search_candidates",
                           Dict(location, None, None, skills, None, None), db,
                           StructuredOutcome(db,
                               search_candidates(users, db, location, skills)))
    /\ pc' = "done"
    /\ UNCHANGED <<dbVars, coll, reqVars, last_add, query_ret, parse_call, inflight, current_user,
                   http_status, api_call>>

\* get_jobs_by_ids(ids), get_candidates_by_ids(ids)
CallGetByIds ==
    /\ pc = "idle"
    /\ \E kind \in Kinds, ids \in IdArgs, db \in StoreOutcomes :
         db_call' = IF kind = "jobs"
                    THEN DbCall("get_jobs_by_ids", ids, db,
                                StructuredOutcome(db, get_jobs_by_ids(jobs, db, ids)))
                    ELSE DbCall("get_candidates_by_ids", ids, db,
                                StructuredOutcome(db, get_candidates_by_ids(users, db, ids)))
    /\ pc' = "done"
    /\ UNCHANGED <<dbVars, coll, reqVars, last_add, query_ret, parse_call, inflight, current_user,
                   http_status, api_call>>

StructuredNext == CallSearchJobs \/ CallSearchCandidates \/ CallGetByIds

StructuredSpec == StructuredInit /\ [][StructuredNext]_vars

(***************************************************************************)
(* The endpoints that write an entity and its vector record.  A handler is *)
(* one step.  Its whole body is a try block whose except clause turns any  *)
(* exception, the HTTPException of a refusal included, into status 500.    *)
(***************************************************************************)
\* "".join(chars): the str of a text kept as a sequence of characters.
RECURSIVE TextOf(_)
TextOf(chars) == IF chars = <<>> THEN "" ELSE Head(chars) \o TextOf(Tail(chars))

\* sep.join(list)
RECURSIVE Join(_, _)
Join(list, sep) ==
    IF list = <<>> THEN <<>>
    ELSE IF Len(list) = 1 THEN Head(list)
    ELSE Head(list) \o sep \o Join(Tail(list), sep)

\* f"{value}" of an optional str or text: None is written "None".
FormatStr(o) == IF IsNone(o) THEN "None" ELSE Val(o)
FormatText(o) == IF IsNone(o) THEN "None" ELSE TextOf(Val(o))

\* job_text of post_job and update_recruiter_job.
job_text(title, location, description, skills_str) ==
    "Title: " \o title \o ", Location: " \o TextOf(location)
        \o ", Description: " \o TextOf(description) \o ", Skills: " \o TextOf(skills_str)

\* profile_text of update_jobseeker_profile and update_jobseeker_skills (phone,
\* experience_level and education are formatted as name is and left out).
profile_text(name, location, skills) ==
    "Name: " \o FormatStr(name) \o ", Location: " \o FormatText(location)
        \o ", Skills: " \o TextOf(Join(skills, <<",", " ">>))

\* profile_text of register, for a user registering without a phone number;
\* the e-mail address is written "user".
register_text(name) == "Name: " \o FormatStr(name) \o ", Phone: None, Email: user"

\* The request bodies: Job, JobseekerProfile, JobseekerSkills.
JobForms ==
    {[title |-> t, location |-> Austin, employmentType |-> FullTime,
      description |-> <<"5">> \o years, skills |-> <<python, sql>>,
      minSalary |-> 50, maxSalary |-> 120] : t \in {"dev", "senior dev"}}
ProfileForms == {[name |-> n, location |-> Austin] : n \in {"Ann", "Bea"}}
SkillsForms == {<<python>>, <<python, sql>>}

\* The row of jobs that post_job inserts and update_recruiter_job writes.
JobOf(id, recruiter_id, form) ==
    [id |-> id, recruiter_id |-> recruiter_id, title |-> form.title,
     location |-> Some(form.location), employmentType |-> Some(form.employmentType),
     description |-> Some(form.description),
     skills |-> Some(Join(form.skills, comma)),
     minSalary |-> Some(form.minSalary), maxSalary |-> Some(form.maxSalary)]

\* The payload of the token of user u.
TokenOf(u) == Some([user_type |-> users[u].user_type, user_id |-> u])

\* Users 1 (a recruiter) and 2 (a jobseeker) have registered: register added
\* the jobseeker's record to the candidates collection.
ApiInit ==
    /\ IdleRequest
    /\ jobs = <<>>
    /\ applications = <<>>
    /\ job_seq = 0
    /\ users = [i \in 1..2 |->
                    [id |-> i, user_type |-> IF i = 1 THEN "recruiter" ELSE "jobseeker",
                     name |-> None, location |-> None, skills |-> None]]
    /\ coll = [k \in Kinds |->
                  IF k = "jobs" THEN <<>>
                  ELSE add_to_collection(<<>>, StrOf(2), register_text(None), None)]
    /\ last_add = [k \in Kinds |-> <<>>]

\* What an endpoint call leaves for its caller: the endpoint, the collection
\* and the identifier the call is about, the status answered and, for an
\* error, the statement that raised ("" when the call succeeded).
Answer(fn, kind, id, status, cause) ==
    /\ api_call' = Some([fn |-> fn, kind |-> kind, id |-> id, cause |-> cause])
    /\ http_status' = Some(status)

\* Outcomes of the statements a handler runs on its connection.
WriteOutcomes == {"ok", "query_error"}

apiFrame == <<pc, reqVars, last_add, query_ret, db_call, parse_call, inflight>>

\* except Exception as e: raise HTTPException(status_code=500, detail=str(e))
\* around the body of a handler: the HTTPException the body raised with
\* another status is an Exception too, and leaves as 500.
Caught(status) == 500

\* WHERE id = %s AND recruiter_id = %s
OwnedBy_AnyRecruiter(tbl, job_id, u) == job_id \in DOMAIN tbl
OwnedBy(tbl, job_id, u) == job_id \in DOMAIN tbl /\ tbl[job_id].recruiter_id = u

\* POST /recruiter/jobs
PostJob ==
    /\ job_seq < MaxApiJobs
    /\ \E u \in DOMAIN users, form \in JobForms, db \in WriteOutcomes, embed_ok \in BOOLEAN :
         LET job_id == job_seq + 1
             skills_str == Join(form.skills, comma)
             text == job_text(form.title, form.location, form.description, skills_str)
         IN
         /\ current_user' = TokenOf(u)
         /\ IF users[u].user_type # "recruiter"
            THEN /\ Answer("post_job", "jobs", job_id, Caught(403), "denied")
                 /\ UNCHANGED <<jobs, job_seq, coll>>
            ELSE IF db # "ok"
            THEN /\ Answer("post_job", "jobs", job_id, 500, "store")
                 /\ UNCHANGED <<jobs, job_seq, coll>>
            ELSE /\ jobs' = [i \in DOMAIN jobs \cup {job_id} |->
                                IF i = job_id THEN JobOf(job_id, u, form) ELSE jobs[i]]
                 /\ job_seq' = job_id
                 /\ IF embed_ok
                    THEN /\ coll' = [coll EXCEPT !["jobs"] =
                                        add_to_collection(@, StrOf(job_id), text, None)]
                         /\ Answer("post_job", "jobs", job_id, 200, "")
                    ELSE /\ UNCHANGED coll
                         /\ Answer("post_job", "jobs", job_id, 500, "vector")
    /\ UNCHANGED <<users, applications, apiFrame>>

\* PUT /recruiter/jobs/{job_id}.  cursor.rowcount counts the rows the UPDATE
\* changed: none when no row has this id and this recruiter, and none when
\* the row already holds the values.
UpdateRecruiterJob ==
    /\ \E u \in DOMAIN users, job_id \in 1..MaxApiJobs, form \in JobForms,
          db \in WriteOutcomes, embed_ok \in BOOLEAN :
         LET skills_str == Join(form.skills, comma)
             text == job_text(form.title, form.location, form.description, skills_str)
             matched == OwnedBy(jobs, job_id, u)
             updated == [JobOf(job_id, u, form) EXCEPT
                             !.recruiter_id = jobs[job_id].recruiter_id]
             rowcount == IF matched /\ jobs[job_id] # updated THEN 1 ELSE 0
         IN
         /\ current_user' = TokenOf(u)
         /\ IF users[u].user_type # "recruiter"
            THEN /\ Answer("update_recruiter_job", "jobs", job_id, Caught(403), "denied")
                 /\ UNCHANGED <<jobs, coll>>
            ELSE IF db # "ok"
            THEN /\ Answer("update_recruiter_job", "jobs", job_id, 500, "store")
                 /\ UNCHANGED <<jobs, coll>>
            ELSE IF rowcount = 0
            THEN /\ Answer("update_recruiter_job", "jobs", job_id, Caught(404), "not_found")
                 /\ UNCHANGED <<jobs, coll>>
            ELSE /\ jobs' = [jobs EXCEPT ![job_id] = updated]
                 /\ IF embed_ok
                    THEN /\ coll' = [coll EXCEPT !["jobs"] =
                                        add_to_collection(@, StrOf(job_id), text, None)]
                         /\ Answer("update_recruiter_job", "jobs", job_id, 200, "")
                    ELSE /\ UNCHANGED coll
                         /\ Answer("update_recruiter_job", "jobs", job_id, 500, "vector")
    /\ UNCHANGED <<users, applications, job_seq, apiFrame>>

\* FOREIGN KEY (job_id) REFERENCES jobs(id) ON DELETE CASCADE: the rows of
\* applications that are left when job job_id is deleted.
Cascade(apps, job_id) == SelectSeq(apps, LAMBDA a : a.job_id # job_id)

\* DELETE /recruiter/jobs/{job_id}.  The handler leaves the jobs collection
\* alone ("TODO: Also delete the job from the ChromaDB collection").
DeleteRecruiterJob ==
    /\ \E u \in DOMAIN users, job_id \in 1..MaxApiJobs, db \in WriteOutcomes :
         /\ current_user' = TokenOf(u)
         /\ IF users[u].user_type # "recruiter"
            THEN /\ Answer("delete_recruiter_job", "jobs", job_id, Caught(403), "denied")
                 /\ UNCHANGED <<jobs, applications>>
            ELSE IF db # "ok"
            THEN /\ Answer("delete_recruiter_job", "jobs", job_id, 500, "store")
                 /\ UNCHANGED <<jobs, applications>>
            ELSE IF ~OwnedBy(jobs, job_id, u)
            THEN /\ Answer("delete_recruiter_job", "jobs", job_id, Caught(404), "not_found")
                 /\ UNCHANGED <<jobs, applications>>
            ELSE /\ jobs' = [i \in DOMAIN jobs \ {job_id} |-> jobs[i]]
                 /\ applications' = Cascade(applications, job_id)
                 /\ Answer("delete_recruiter_job", "jobs", job_id, 200, "")
    /\ UNCHANGED <<users, job_seq, coll, apiFrame>>

\* SELECT id FROM applications WHERE job_id = %s AND jobseeker_id = %s
HasApplied(apps, job_id, u) ==
    \E k \in 1..Len(apps) : apps[k].job_id = job_id /\ apps[k].jobseeker_id = u

\* INSERT INTO applications (job_id, jobseeker_id, application_date)
InsertApplication(apps, job_id, u) == Append(apps, [job_id |-> job_id, jobseeker_id |-> u])

\* POST /jobs/{job_id}/apply
ApplyForJob ==
    /\ \E u \in DOMAIN users, job_id \in 1..MaxApiJobs, db \in WriteOutcomes :
         /\ current_user' = TokenOf(u)
         /\ IF users[u].user_type # "jobseeker"
            THEN /\ Answer("apply_for_job", "jobs", job_id, Caught(403), "denied")
                 /\ UNCHANGED applications
            ELSE IF db # "ok"
            THEN /\ Answer("apply_for_job", "jobs", job_id, 500, "store")
                 /\ UNCHANGED applications
            ELSE IF job_id \notin DOMAIN jobs
            THEN /\ Answer("apply_for_job", "jobs", job_id, Caught(404), "not_found")
                 /\ UNCHANGED applications
            ELSE IF HasApplied(applications, job_id, u)
            THEN /\ Answer("apply_for_job", "jobs", job_id, Caught(400), "duplicate")
                 /\ UNCHANGED applications
            ELSE /\ applications' = InsertApplication(applications, job_id, u)
                 /\ Answer("apply_for_job", "jobs", job_id, 200, "")
    /\ UNCHANGED <<jobs, users, job_seq, coll, apiFrame>>

\* json.loads(user_data['skills']) if user_data.get('skills') else []
SkillsOf(row) == IF TruthySeq(row.skills) THEN Val(row.skills) ELSE <<>>

\* PUT /jobseeker/profile
UpdateJobseekerProfile ==
    /\ \E u \in DOMAIN users, profile \in ProfileForms, db \in WriteOutcomes,
          embed_ok \in BOOLEAN :
         LET text == profile_text(Some(profile.name), Some(profile.location),
                                  SkillsOf(users[u]))
         IN
         /\ current_user' = TokenOf(u)
         /\ IF users[u].user_type # "jobseeker"
            THEN /\ Answer("update_jobseeker_profile", "candidates", u, Caught(403), "denied")
                 /\ UNCHANGED <<users, coll>>
            ELSE IF db # "ok"
            THEN /\ Answer("update_jobseeker_profile", "candidates", u, 500, "store")
                 /\ UNCHANGED <<users, coll>>
            ELSE /\ users' = [users EXCEPT ![u].name = Some(profile.name),
                                           ![u].location = Some(profile.location)]
                 /\ IF embed_ok
                    THEN /\ coll' = [coll EXCEPT !["candidates"] =
                                        add_to_collection(@, StrOf(u), text, None)]
                         /\ Answer("update_jobseeker_profile", "candidates", u, 200, "")
                    ELSE /\ UNCHANGED coll
                         /\ Answer("update_jobseeker_profile", "candidates", u, 500, "vector")
    /\ UNCHANGED <<jobs, applications, job_seq, apiFrame>>

\* PUT /jobseeker/skills
UpdateJobseekerSkills ==
    /\ \E u \in DOMAIN users, skills \in SkillsForms, db \in WriteOutcomes,
          embed_ok \in BOOLEAN :
         LET text == profile_text(users[u].name, users[u].location, skills)
         IN
         /\ current_user' = TokenOf(u)
         /\ IF users[u].user_type # "jobseeker"
            THEN /\ Answer("update_jobseeker_skills", "candidates", u, Caught(403), "denied")
                 /\ UNCHANGED <<users, coll>>
            ELSE IF db # "ok"
            THEN /\ Answer("update_jobseeker_skills", "candidates", u, 500, "store")
                 /\ UNCHANGED <<users, coll>>
            ELSE /\ users' = [users EXCEPT ![u].skills = Some(skills)]
                 /\ IF embed_ok
                    THEN /\ coll' = [coll EXCEPT !["candidates"] =
                                        add_to_collection(@, StrOf(u), text, None)]
                         /\ Answer("update_jobseeker_skills", "candidates", u, 200, "")
                    ELSE /\ UNCHANGED coll
                         /\ Answer("update_jobseeker_skills", "candidates", u, 500, "vector")
    /\ UNCHANGED <<jobs, applications, job_seq, apiFrame>>

\* The columns of a row of users (CREATE TABLE users), the keys of the
\* dictionary get_user_by_email returns.
UsersColumns ==
    {"id", "email", "password", "user_type", "name", "phone", "company", "location",
     "skills", "created_at"}

\* get_user_by_email(conn, email): the row, or None when there is none or the
\* query failed.  The e-mail address of user e is written e.
get_user_by_email(tbl, db, e) == IF db = "ok" /\ e \in DOMAIN tbl THEN Some(tbl[e]) ELSE None

\* POST /login.  found_user['hashed_password'] raises KeyError unless the
\* row has a column of that name.
Login ==
    /\ \E e \in 1..MaxApiUsers, userType \in UserTypes, password_ok \in BOOLEAN,
          db \in WriteOutcomes :
         LET found_user == get_user_by_email(users, db, e)
             outcome ==
                 IF IsNone(found_user) \/ Val(found_user).user_type # userType
                 THEN [status |-> Caught(401), cause |-> "unauthorized"]
                 ELSE IF "hashed_password" \notin UsersColumns
                 THEN [status |-> 500, cause |-> "KeyError"]
                 ELSE IF ~password_ok
                 THEN [status |-> Caught(401), cause |-> "unauthorized"]
                 ELSE [status |-> 200, cause |-> ""]
         IN
         /\ current_user' = None
         /\ Answer("login", "candidates", e, outcome.status, outcome.cause)
    /\ UNCHANGED <<dbVars, coll, apiFrame>>

\* create_user(conn, user): cursor.lastrowid, or None when the INSERT raised.
create_user(tbl, db) == IF db = "ok" THEN Some(Cardinality(DOMAIN tbl) + 1) ELSE None

\* str(user_id)
PyIdStr(user_id) == IF IsNone(user_id) THEN "None" ELSE StrOf(Val(user_id))

\* POST /register.  e is the e-mail address: the one of user e when there is
\* such a user, a new one otherwise.  The call is recorded with the user_id
\* create_user returned, 0 standing for None (the ids of rows start at 1).
Register ==
    /\ Cardinality(DOMAIN users) < MaxApiUsers
    /\ \E e \in 1..MaxApiUsers, userType \in UserTypes, db \in WriteOutcomes,
          embed_ok \in BOOLEAN :
         LET existing_user == get_user_by_email(users, "ok", e)
             user_id == create_user(users, db)
             id == IF IsNone(user_id) THEN 0 ELSE Val(user_id)
         IN
         /\ e <= Cardinality(DOMAIN users) + 1
         /\ current_user' = None
         /\ IF ~IsNone(existing_user)
            THEN /\ Answer("register", "candidates", 0, Caught(400), "exists")
                 /\ UNCHANGED <<users, coll>>
            ELSE /\ users' = IF IsNone(user_id) THEN users
                             ELSE [i \in DOMAIN users \cup {id} |->
                                     IF i \in DOMAIN users THEN users[i]
                                     ELSE [id |-> i, user_type |-> userType, name |-> None,
                                           location |-> None, skills |-> None]]
                 /\ IF userType = "jobseeker"
                    THEN IF embed_ok
                         THEN /\ coll' = [coll EXCEPT !["candidates"] =
                                             add_to_collection(@, PyIdStr(user_id),
                                                               register_text(None), None)]
                              /\ Answer("register", "candidates", id, 200, "")
                         ELSE /\ UNCHANGED coll
                              /\ Answer("register", "candidates", id, 500, "vector")
                    ELSE /\ UNCHANGED coll
                         /\ Answer("register", "candidates", id, 200, "")
    /\ UNCHANGED <<jobs, applications, job_seq, apiFrame>>

ApiNext ==
    \/ PostJob
    \/ UpdateRecruiterJob
    \/ UpdateJobseekerProfile
    \/ UpdateJobseekerSkills

ApiSpec == ApiInit /\ [][ApiNext]_vars

\* The endpoints of the accounts: the store of ApiInit, where further users
\* register, log in and edit their profiles.
AccountNext ==
    \/ Register
    \/ Login
    \/ UpdateJobseekerProfile
    \/ UpdateJobseekerSkills

AccountSpec == ApiInit /\ [][AccountNext]_vars

\* Users 1 and 3 (recruiters) and 2 (a jobseeker) have registered.
JobInit ==
    /\ IdleRequest
    /\ jobs = <<>>
    /\ applications = <<>>
    /\ job_seq = 0
    /\ users = [i \in 1..3 |->
                    [id |-> i, user_type |-> IF i = 2 THEN "jobseeker" ELSE "recruiter",
                     name |-> None, location |-> None, skills |-> None]]
    /\ coll = [k \in Kinds |->
                  IF k = "jobs" THEN <<>>
                  ELSE add_to_collection(<<>>, StrOf(2), register_text(None), None)]
    /\ last_add = [k \in Kinds |-> <<>>]

\* The endpoints of the jobs: recruiters post, update and delete jobs, the
\* jobseeker applies for them.
JobNext ==
    \/ PostJob
    \/ UpdateRecruiterJob
    \/ DeleteRecruiterJob
    \/ ApplyForJob

JobSpec == JobInit /\ [][JobNext]_vars



(***************************************************************************)
(* The search() of backend/search_engine.py, the module the endpoints of   *)
(* backend/main.py call, in its four steps, while update_recruiter_job     *)
(* requests are served.                                                    *)
(***************************************************************************)
\* json.loads(parsed_query_str.replace("```json", "").replace("```", "")),
\* with the fallback of except json.JSONDecodeError.
LegacyLoadParsedQuery(q, text) ==
    LET r == json_loads(StripFences(text))
    IN  IF r.ok THEN r.val ELSE PyDict(SearchFallback(q))

\* for doc in vector_docs: if doc not in combined_results:
\*     combined_results.append(doc)
RECURSIVE LegacyAppendNew(_, _)
LegacyAppendNew(combined, docs) ==
    IF docs = <<>> THEN combined
    ELSE LegacyAppendNew(IF Head(docs) \in Range(combined) THEN combined
                         ELSE Append(combined, Head(docs)),
                         Tail(docs))

\* Users 1 and 3 (recruiters) and 2 (a jobseeker) have registered, and
\* recruiter 1 has posted jobs 1..MaxApiJobs with post_job.
PostedInit ==
    /\ IdleRequest
    /\ applications = <<>>
    /\ job_seq = MaxApiJobs
    /\ users = [i \in 1..3 |->
                    [id |-> i, user_type |-> IF i = 2 THEN "jobseeker" ELSE "recruiter",
                     name |-> None, location |-> None, skills |-> None]]
    /\ \E form \in JobForms :
         /\ jobs = [i \in 1..MaxApiJobs |-> JobOf(i, 1, form)]
         /\ coll = [k \in Kinds |->
                      IF k = "jobs"
                      THEN [x \in {StrOf(i) : i \in 1..MaxApiJobs} |->
                              Record(job_text(form.title, form.location, form.description,
                                              Join(form.skills, comma)), None)]
                      ELSE add_to_collection(<<>>, StrOf(2), register_text(None), None)]
    /\ last_add = [k \in Kinds |-> <<>>]

\* Step 1: parse_query returns response.text, or the exception of
\* generate_content leaves search().
LegacyParseStep ==
    /\ pc = "idle"
    /\ \E q \in Queries, kind \in Kinds, lm \in LMOutcomes :
         /\ query' = q
         /\ search_type' = kind
         /\ IF lm.raises
            THEN /\ raised' = TRUE
                 /\ pc' = "done"
                 /\ UNCHANGED parsed_query
            ELSE /\ parsed_query' = Some(LegacyLoadParsedQuery(q, lm.text))
                 /\ pc' = "sql"
                 /\ UNCHANGED raised
    /\ UNCHANGED <<dbVars, extVars, coll, last_add, query_ret, parse_ret, parse_failed,
                   sql_args, sql_failed, sql_results, vec_failed, vector_results,
                   vector_docs, combined_results, returned>>

\* Step 2: the structured query.  parsed_query.get raises AttributeError when
\* json.loads gave something that is no dict.
LegacyStructuredStep ==
    /\ pc = "sql"
    /\ IF Val(parsed_query).t # "dict"
       THEN /\ raised' = TRUE
            /\ pc' = "done"
            /\ UNCHANGED <<sql_failed, sql_results>>
       ELSE LET d == Val(parsed_query).d IN
            \E db \in StoreOutcomes :
              /\ sql_failed' = (db # "ok")
              /\ sql_results' =
                    IF search_type = "jobs"
                    THEN search_jobs(jobs, db, d.location, d.salary, d.experience,
                                     d.skills, d.job_type)
                    ELSE search_candidates(users, db, d.location, d.skills)
              /\ pc' = "vector"
              /\ UNCHANGED raised
    /\ UNCHANGED <<dbVars, extVars, coll, last_add, query_ret, parse_ret, parse_failed,
                   sql_args, query, search_type, parsed_query, vec_failed,
                   vector_results, vector_docs, combined_results, returned>>

\* Step 3: the vector query.
LegacyVectorStep ==
    /\ pc = "vector"
    /\ IF TruthyStr(Val(parsed_query).d.semantic_query)
       THEN \E ok \in BOOLEAN :
              IF ok
              THEN /\ \E ids \in query_collection(coll[CollectionFor(search_type)],
                                    Val(Val(parsed_query).d.semantic_query), None) :
                         vector_results' = Some(ids)
                   /\ pc' = "merge"
                   /\ UNCHANGED <<vec_failed, raised>>
              ELSE /\ vec_failed' = TRUE
                   /\ raised' = TRUE
                   /\ pc' = "done"
                   /\ UNCHANGED vector_results
       ELSE /\ vector_results' = None
            /\ pc' = "merge"
            /\ UNCHANGED <<vec_failed, raised>>
    /\ UNCHANGED <<dbVars, extVars, coll, last_add, query_ret, parse_ret, parse_failed,
                   sql_args, query, search_type, parsed_query, sql_failed, sql_results,
                   vector_docs, combined_results, returned>>

\* Step 4: vector_ids = [int(id) for id in vector_results["ids"][0]] raises
\* ValueError for an identifier that is no number; the rows of the matches
\* are fetched now and appended unless the list holds an equal record.
LegacyMergeStep ==
    /\ pc = "merge"
    /\ IF IsNone(vector_results) \/ Val(vector_results) = <<>>
       THEN /\ combined_results' = sql_results
            /\ returned' = TRUE
            /\ UNCHANGED <<vector_docs, raised>>
       ELSE IF \E k \in DOMAIN Val(vector_results) : ~IsDigit(Val(vector_results)[k])
       THEN /\ raised' = TRUE
            /\ UNCHANGED <<vector_docs, combined_results, returned>>
       ELSE \E db \in StoreOutcomes :
              LET vector_ids == [k \in DOMAIN Val(vector_results) |->
                                    IntOf(Val(vector_results)[k])]
                  docs == IF search_type = "jobs"
                          THEN get_jobs_by_ids(jobs, db, vector_ids)
                          ELSE get_candidates_by_ids(users, db, vector_ids)
              IN  /\ vector_docs' = Some(docs)
                  /\ combined_results' = LegacyAppendNew(sql_results, docs)
                  /\ returned' = TRUE
                  /\ UNCHANGED raised
    /\ pc' = "done"
    /\ UNCHANGED <<dbVars, extVars, coll, last_add, query_ret, parse_ret, parse_failed,
                   sql_args, query, search_type, parsed_query, sql_failed, sql_results,
                   vec_failed, vector_results>>

\* The requests served while a search is under way are those of
\* update_recruiter_job, each served as a whole between two steps of search().
LegacyNext ==
    \/ LegacyParseStep
    \/ LegacyStructuredStep
    \/ LegacyVectorStep
    \/ LegacyMergeStep
    \/ UpdateRecruiterJob

LegacySpec == PostedInit /\ [][LegacyNext]_vars

(***************************************************************************)
(* Requests served at the same time.  Every request has a connection of    *)
(* its own (get_db_connection), and every handler commits after its        *)
(* statement, so a step of a request is a handler's code up to and         *)
(* including one access to the store or to the vector index.  inflight     *)
(* holds the requests accepted, each with its position (pc), the values    *)
(* its handler keeps in local variables, and the status answered.          *)
(***************************************************************************)
Request(fn, u, id, at, status, text, name, location, skills) ==
    [fn |-> fn, u |-> u, id |-> id, pc |-> at, status |-> status, text |-> text,
     name |-> name, location |-> location, skills |-> skills]

\* A request answered when its first step ends.
Answered(fn, u, id, status) == Request(fn, u, id, "done", status, "", None, None, <<>>)

\* The request r answered with status.
Finish(r, status) == [inflight EXCEPT ![r].pc = "done", ![r].status = status]

concFrame == <<pc, reqVars, last_add, query_ret, db_call, parse_call, current_user,
               http_status, api_call>>

\* apply_for_job up to its two SELECT statements, which read one snapshot of
\* the store.
ConcApplyCheck ==
    /\ Len(inflight) < MaxInflight
    /\ \E u \in DOMAIN users, job_id \in 1..MaxApiJobs, db \in WriteOutcomes :
         inflight' = Append(inflight,
             IF users[u].user_type # "jobseeker"
             THEN Answered("apply_for_job", u, job_id, Caught(403))
             ELSE IF db # "ok"
             THEN Answered("apply_for_job", u, job_id, 500)
             ELSE IF job_id \notin DOMAIN jobs
             THEN Answered("apply_for_job", u, job_id, Caught(404))
             ELSE IF HasApplied(applications, job_id, u)
             THEN Answered("apply_for_job", u, job_id, Caught(400))
             ELSE Request("apply_for_job", u, job_id, "insert", 0, "", None, None, <<>>))
    /\ UNCHANGED <<dbVars, coll, concFrame>>

\* apply_for_job: the INSERT and the commit.  The foreign key on job_id
\* refuses the row of a job that has been deleted meanwhile.
ConcApplyInsert ==
    /\ \E r \in DOMAIN inflight :
         /\ inflight[r].pc = "insert"
         /\ \E db \in WriteOutcomes :
              IF db = "ok" /\ inflight[r].id \in DOMAIN jobs
              THEN /\ applications' =
                         InsertApplication(applications, inflight[r].id, inflight[r].u)
                   /\ inflight' = Finish(r, 200)
              ELSE /\ inflight' = Finish(r, 500)
                   /\ UNCHANGED applications
    /\ UNCHANGED <<jobs, users, job_seq, coll, concFrame>>

\* delete_recruiter_job: one statement and its commit.
ConcDeleteJob ==
    /\ Len(inflight) < MaxInflight
    /\ \E u \in DOMAIN users, job_id \in 1..MaxApiJobs, db \in WriteOutcomes :
         IF users[u].user_type = "recruiter" /\ db = "ok" /\ OwnedBy(jobs, job_id, u)
         THEN /\ jobs' = [i \in DOMAIN jobs \ {job_id} |-> jobs[i]]
              /\ applications' = Cascade(applications, job_id)
              /\ inflight' = Append(inflight, Answered("delete_recruiter_job", u, job_id, 200))
         ELSE /\ inflight' = Append(inflight, Answered("delete_recruiter_job", u, job_id, 500))
              /\ UNCHANGED <<jobs, applications>>
    /\ UNCHANGED <<users, job_seq, coll, concFrame>>

\* update_recruiter_job up to the commit of its UPDATE and the test of
\* cursor.rowcount; job_text is built from the request body.
ConcUpdateJobWrite ==
    /\ Len(inflight) < MaxInflight
    /\ \E u \in DOMAIN users, job_id \in 1..MaxApiJobs, form \in JobForms,
          db \in WriteOutcomes :
         LET text == job_text(form.title, form.location, form.description,
                              Join(form.skills, comma))
             updated == [JobOf(job_id, u, form) EXCEPT
                             !.recruiter_id = jobs[job_id].recruiter_id]
         IN  IF /\ users[u].user_type = "recruiter"
                /\ db = "ok"
                /\ OwnedBy(jobs, job_id, u)
                /\ jobs[job_id] # updated
             THEN /\ jobs' = [jobs EXCEPT ![job_id] = updated]
                  /\ inflight' = Append(inflight,
                         Request("update_recruiter_job", u, job_id, "vector", 0, text,
                                 None, None, <<>>))
             ELSE /\ inflight' = Append(inflight,
                         Answered("update_recruiter_job", u, job_id, 500))
                  /\ UNCHANGED jobs
    /\ UNCHANGED <<users, applications, job_seq, coll, concFrame>>

\* update_jobseeker_profile up to the commit of its UPDATE.
ConcProfileWrite ==
    /\ Len(inflight) < MaxInflight
    /\ \E u \in DOMAIN users, profile \in ProfileForms, db \in WriteOutcomes :
         IF users[u].user_type = "jobseeker" /\ db = "ok"
         THEN /\ users' = [users EXCEPT ![u].name = Some(profile.name),
                                        ![u].location = Some(profile.location)]
              /\ inflight' = Append(inflight,
                     Request("update_jobseeker_profile", u, u, "read", 0, "",
                             Some(profile.name), Some(profile.location), <<>>))
         ELSE /\ inflight' = Append(inflight,
                     Answered("update_jobseeker_profile", u, u, 500))
              /\ UNCHANGED users
    /\ UNCHANGED <<jobs, applications, job_seq, coll, concFrame>>

\* update_jobseeker_skills up to the commit of its UPDATE.
ConcSkillsWrite ==
    /\ Len(inflight) < MaxInflight
    /\ \E u \in DOMAIN users, skills \in SkillsForms, db \in WriteOutcomes :
         IF users[u].user_type = "jobseeker" /\ db = "ok"
         THEN /\ users' = [users EXCEPT ![u].skills = Some(skills)]
              /\ inflight' = Append(inflight,
                     Request("update_jobseeker_skills", u, u, "read", 0, "",
                             None, None, skills))
         ELSE /\ inflight' = Append(inflight,
                     Answered("update_jobseeker_skills", u, u, 500))
              /\ UNCHANGED users
    /\ UNCHANGED <<jobs, applications, job_seq, coll, concFrame>>

\* user_data = get_user_by_email(conn, ...) of the two handlers, and the
\* profile_text each builds: update_jobseeker_profile takes the skills from
\* the row, update_jobseeker_skills the other fields.
ConcReadUser ==
    /\ \E r \in DOMAIN inflight :
         /\ inflight[r].pc = "read"
         /\ LET q == inflight[r]
                row == users[q.u]
                text == IF q.fn = "update_jobseeker_profile"
                        THEN profile_text(q.name, q.location, SkillsOf(row))
                        ELSE profile_text(row.name, row.location, q.skills)
            IN  inflight' = [inflight EXCEPT ![r].pc = "vector", ![r].text = text]
    /\ UNCHANGED <<dbVars, coll, concFrame>>

\* add_to_collection(collection, str(id), text), and the answer.
ConcWriteVector ==
    /\ \E r \in DOMAIN inflight :
         /\ inflight[r].pc = "vector"
         /\ \E embed_ok \in BOOLEAN :
              LET q == inflight[r]
                  kind == IF q.fn = "update_recruiter_job" THEN "jobs" ELSE "candidates"
              IN  IF embed_ok
                  THEN /\ coll' = [coll EXCEPT ![kind] =
                                      add_to_collection(@, StrOf(q.id), q.text, None)]
                       /\ inflight' = Finish(r, 200)
                  ELSE /\ inflight' = Finish(r, 500)
                       /\ UNCHANGED coll
    /\ UNCHANGED <<dbVars, concFrame>>

ConcNext ==
    \/ ConcApplyCheck
    \/ ConcApplyInsert
    \/ ConcDeleteJob
    \/ ConcUpdateJobWrite
    \/ ConcProfileWrite
    \/ ConcSkillsWrite
    \/ ConcReadUser
    \/ ConcWriteVector

ConcSpec == PostedInit /\ [][ConcNext]_vars

(***************************************************************************)
(* What the claims speak about.                                            *)
(***************************************************************************)
\* search() has returned its list.
SearchReturned == pc = "done" /\ returned /\ IsNone(query_ret)

\* search() has ended with an exception.
SearchRaised == pc = "done" /\ raised /\ IsNone(query_ret)

\* The identifiers the Vector Index returned, in its order.
MatchIds == IF IsNone(vector_results) THEN <<>> ELSE Val(vector_results)

\* The entities of the returned list that follow the structured results.
Appended == SubSeq(combined_results, Len(sql_results) + 1, Len(combined_results))

\* The first position of x in sequence s.
FirstPos(s, x) == CHOOSE k \in DOMAIN s : s[k] = x /\ \A j \in 1..(k - 1) : s[j] # x

NoDuplicateIds(results) ==
    \A i, j \in DOMAIN results : i # j => results[i].id # results[j].id

\* The filters of a dict, as search() hands them to search_jobs.
FiltersOf(d) == [d EXCEPT !.semantic_query = None]

(***************************************************************************)
(* C1: whenever parse_query succeeds and returns structured filters,       *)
(* search_jobs is invoked with exactly those filter values.                *)
(***************************************************************************)
C1_FiltersReachStructuredSearch ==
    (/\ search_type = "jobs"
     /\ ~IsNone(sql_args)
     /\ ~parse_failed
     /\ Val(parse_ret).t = "dict")
    => Val(sql_args) = FiltersOf(Val(parse_ret).d)

(***************************************************************************)
(* C2: the list search() returns holds no two entities with the same id,   *)
(* whatever the structured results and the vector match list are.          *)
(***************************************************************************)
C2_NoDuplicateIds == SearchReturned => NoDuplicateIds(combined_results)

\* A match list that repeats an id and overlaps the structured results, with
\* a row appended.
C2_Witness ==
    /\ SearchReturned
    /\ \E i, j \in DOMAIN MatchIds : i # j /\ MatchIds[i] = MatchIds[j]
    /\ \E k \in DOMAIN MatchIds :
          IsDigit(MatchIds[k]) /\ IntOf(MatchIds[k]) \in IdsOf(sql_results)
    /\ Appended # <<>>

(***************************************************************************)
(* C3: the returned list starts with the structured results in the order   *)
(* Structured Search returned them, and every entity that came only from   *)
(* the Vector Index follows them.                                          *)
(***************************************************************************)
C3_StructuredFirst ==
    SearchReturned =>
        /\ Len(combined_results) >= Len(sql_results)
        /\ SubSeq(combined_results, 1, Len(sql_results)) = sql_results
        /\ \A k \in DOMAIN Appended : Appended[k].id \notin IdsOf(sql_results)

\* Both sets non-empty and disjoint, several structured results.
C3_Witness ==
    /\ SearchReturned
    /\ Len(sql_results) >= 2
    /\ Appended # <<>>
    /\ IdsOf(sql_results) \cap Range(VectorIds(MatchIds)) = {}

(***************************************************************************)
(* C4: the semantic-only entities are appended in the order in which the   *)
(* Vector Index returned their identifiers.                                *)
(***************************************************************************)
C4_AppendedInVectorOrder ==
    SearchReturned =>
        \A i, j \in DOMAIN Appended :
            i < j => FirstPos(MatchIds, StrOf(Appended[i].id))
                       < FirstPos(MatchIds, StrOf(Appended[j].id))

(***************************************************************************)
(* C5: if the Query Parser fails, the search proceeds with semantic_query  *)
(* equal to the raw query and every structured filter absent, and no error *)
(* reaches the caller of search().                                         *)
(***************************************************************************)
C5_ParseFailureDegrades ==
    parse_failed =>
        /\ Val(parsed_query) = PyDict(SearchFallback(query))
        /\ ~IsNone(sql_args) => Val(sql_args) = NullDict
        /\ ~raised

(***************************************************************************)
(* C6: if the Embedding Provider or the Vector Index raises during         *)
(* search(), search() returns exactly the structured results and raises    *)
(* nothing.                                                                *)
(***************************************************************************)
C6_VectorFailureTolerated ==
    (vec_failed /\ pc = "done" /\ IsNone(query_ret)) =>
        /\ ~raised
        /\ returned
        /\ combined_results = sql_results

(***************************************************************************)
(* C7: when the Query Parser, Structured Search and the Vector Index all   *)
(* fail for one request, search() returns an empty list and does not       *)
(* raise.                                                                  *)
(***************************************************************************)
C7_TotalFailureGivesEmptyList ==
    (parse_failed /\ sql_failed /\ vec_failed /\ pc = "done") =>
        (returned /\ ~raised /\ combined_results = <<>>)

(***************************************************************************)
(* C8: when every vector-match identifier resolves to a row, the returned  *)
(* list is as long as the structured results plus the distinct match       *)
(* identifiers that are not among them.                                    *)
(***************************************************************************)
\* Every identifier of the match list was fetched from the table.
AllMatchesResolve ==
    \A k \in DOMAIN MatchIds :
        /\ IsDigit(MatchIds[k])
        /\ ~IsNone(vector_docs)
        /\ IntOf(MatchIds[k]) \in IdsOf(Val(vector_docs))

C8_MergedLength ==
    (SearchReturned /\ AllMatchesResolve) =>
        Len(combined_results) =
            Len(sql_results)
            + Cardinality({x \in Range(MatchIds) : IntOf(x) \notin IdsOf(sql_results)})

\* Matches that overlap the structured results and matches that do not.
C8_Witness ==
    /\ SearchReturned
    /\ AllMatchesResolve
    /\ sql_results # <<>>
    /\ \E x \in Range(MatchIds) : IntOf(x) \in IdsOf(sql_results)
    /\ \E x \in Range(MatchIds) : IntOf(x) \notin IdsOf(sql_results)

(***************************************************************************)
(* C9: add_to_collection inserts or updates: the collection holds one      *)
(* record per identifier, with the document and the embedding of the most  *)
(* recent call for that identifier.                                        *)
(***************************************************************************)
C9_AddIsUpsert ==
    \A kind \in Kinds : \A x \in DOMAIN last_add[kind] :
        /\ x \in DOMAIN coll[kind]
        /\ coll[kind][x].document = last_add[kind][x]
        /\ coll[kind][x].embedding = generate_embeddings(last_add[kind][x])

(***************************************************************************)
(* C10: query_collection returns min(k, number of records) matches, never  *)
(* more than k, with k = 5 when none is given; search() appends at most 5  *)
(* semantic-only entities.                                                 *)
(***************************************************************************)
\* The k of a call given n_results, or none.
EffectiveK(n_results) == IF IsNone(n_results) THEN 5 ELSE Val(n_results)

C10_AtMostKMatches ==
    /\ ~IsNone(query_ret) =>
          LET r == Val(query_ret) IN
          /\ Len(r.ids) <= EffectiveK(r.n_results)
          /\ Len(r.ids) = Min(EffectiveK(r.n_results), Cardinality(DOMAIN coll[r.kind]))
    /\ ~IsNone(vector_results) =>
          Len(MatchIds) = Min(5, Cardinality(DOMAIN coll[search_type]))
    /\ SearchReturned => Len(Appended) <= 5

\* A search over a collection of more than five records that appended five.
C10_Witness ==
    /\ SearchReturned
    /\ Cardinality(DOMAIN coll[search_type]) > 5
    /\ Len(MatchIds) = 5
    /\ Len(Appended) = 5

NatStr(n) == IF n = 0 THEN "0" ELSE StrOf(n)

\* The comparisons of the present filters of f, on a row of jobs.
JobSatisfies(row, f) ==
    /\ ~IsNone(f.location) => ColLike(row.location, Val(f.location))
    /\ ~IsNone(f.salary) =>
           (ColGeq(row.minSalary, Val(f.salary)) \/ ColGeq(row.maxSalary, Val(f.salary)))
    /\ ~IsNone(f.experience) =>
           ColLike(row.description, <<NatStr(Val(f.experience))>> \o years)
    /\ ~IsNone(f.skills) =>
           \A k \in DOMAIN Val(f.skills) : ColLike(row.skills, Val(f.skills)[k])
    /\ ~IsNone(f.job_type) => ColLike(row.employmentType, Val(f.job_type))

C12_ConjunctionOfPresentFilters ==
    (~IsNone(db_call) /\ Val(db_call).db = "ok") =>
        LET c == Val(db_call) IN
        /\ c.fn = "search_jobs" =>
               Range(c.ret) = {jobs[i] : i \in {j \in DOMAIN jobs : JobSatisfies(jobs[j], c.args)}}
        /\ (c.fn = "search_candidates" /\ c.args = NullDict) =>
               Range(c.ret) = {users[i] : i \in {j \in DOMAIN users :
                                                   users[j].user_type = "jobseeker"}}

(***************************************************************************)
(* C14: with a non-empty list of skills, Structured Search returns only    *)
(* entities in which every requested skill is found (a substring of the    *)
(* job's skills, a member of the candidate's skills array); an entity      *)
(* lacking one of them is not returned.                                    *)
(***************************************************************************)
C14_EverySkillFound ==
    (~IsNone(db_call) /\ Val(db_call).fn \in {"search_jobs", "search_candidates"}
        /\ TruthySeq(Val(db_call).args.skills)) =>
        LET c == Val(db_call) IN
        \A r \in DOMAIN c.ret : \A k \in DOMAIN Val(c.args.skills) :
            IF c.fn = "search_jobs"
            THEN ColLike(c.ret[r].skills, Val(c.args.skills)[k])
            ELSE JsonContains(c.ret[r].skills, Val(c.args.skills)[k])

\* Two skills asked for: a job with both is returned, a job with only one of
\* them is in the table and is not.
C14_Witness ==
    /\ ~IsNone(db_call)
    /\ Val(db_call).fn = "search_jobs"
    /\ Val(db_call).db = "ok"
    /\ Val(db_call).args.skills = Some(<<python, sql>>)
    /\ Val(db_call).ret # <<>>
    /\ \E i \in DOMAIN jobs :
          /\ ColLike(jobs[i].skills, python)
          /\ ~ColLike(jobs[i].skills, sql)
          /\ jobs[i] \notin Range(Val(db_call).ret)

(***************************************************************************)
(* C13: when parse_query succeeds with a location L, every entity search() *)
(* obtains from Structured Search has a location containing L, letters     *)
(* compared without regard to case.                                        *)
(***************************************************************************)
C13_LocationFilterApplied ==
    (/\ ~IsNone(sql_args)
     /\ ~parse_failed
     /\ Val(parse_ret).t = "dict"
     /\ TruthySeq(Val(parse_ret).d.location))
    => \A k \in DOMAIN sql_results :
           ColLike(sql_results[k].location, Val(Val(parse_ret).d.location))

(***************************************************************************)
(* C15: a search of one kind queries the collection of that kind only and  *)
(* resolves the identifiers against the table of that kind only (jobs:     *)
(* jobs; candidates: users), so the list it returns holds no entity of the *)
(* other kind; the vector query is issued only when semantic_query is      *)
(* non-empty.                                                              *)
(***************************************************************************)
\* The rows of the table of a kind.
TableRows(kind) ==
    IF kind = "jobs" THEN {jobs[i] : i \in DOMAIN jobs} ELSE {users[i] : i \in DOMAIN users}

C15_KindsKeptApart ==
    /\ ~IsNone(vector_results) =>
          /\ Range(MatchIds) \subseteq DOMAIN coll[search_type]
          /\ TruthyStr(Val(parsed_query).d.semantic_query)
    /\ ~IsNone(vector_docs) => Range(Val(vector_docs)) \subseteq TableRows(search_type)
    /\ Range(sql_results) \subseteq TableRows(search_type)
    /\ SearchReturned => Range(combined_results) \subseteq TableRows(search_type)

\* A candidates search that appended rows fetched for its vector matches,
\* while the jobs collection holds identifiers the candidates one does not.
C15_Witness ==
    /\ SearchReturned
    /\ search_type = "candidates"
    /\ Appended # <<>>
    /\ DOMAIN jobs # {}
    /\ DOMAIN coll["jobs"] \ DOMAIN coll["candidates"] # {}

(***************************************************************************)
(* C16: for a non-empty raw query, the parsed query search() works with    *)
(* has a non-empty semantic_query, whether parsing succeeded or failed.    *)
(***************************************************************************)
C16_SemanticQueryNonEmpty ==
    (query # "" /\ ~IsNone(parsed_query) /\ Val(parsed_query).t = "dict") =>
        TruthyStr(Val(parsed_query).d.semantic_query)

(***************************************************************************)
(* C17: a valid JSON object wrapped in markdown code-fence markers is      *)
(* parsed as the object without the markers is: parse_query does not take  *)
(* its failure branch and returns the same value.                          *)
(***************************************************************************)
\* The answer of the language model without its code-fence markers.
Unwrapped(lm) == [lm EXCEPT !.text.fenced = FALSE]

C17_FencedObjectParsed ==
    (/\ ~IsNone(parse_call)
     /\ ~Val(parse_call).lm.raises
     /\ Val(parse_call).lm.text.fenced
     /\ Val(parse_call).lm.text.kind = "object")
    => /\ ~Val(parse_call).failed
       /\ Val(parse_call).ret = parse_query(Val(parse_call).query, Unwrapped(Val(parse_call).lm))

(***************************************************************************)
(* C18: parse_query does not block for ever: a call of the language model  *)
(* that gets no answer is ended by a timeout and counts as a parse         *)
(* failure, so a search that has started eventually ends.                  *)
(***************************************************************************)
C18_SearchEnds == (pc = "parse") ~> (pc = "done")

(***************************************************************************)
(* C19: after post_job, update_recruiter_job, update_jobseeker_profile or  *)
(* update_jobseeker_skills has answered success, the collection holds the  *)
(* record keyed by str(id) of the entity, and its text is the one built    *)
(* from the entity's current field values.                                 *)
(***************************************************************************)
\* The endpoints that write an entity and its vector record.
WriteEndpoints ==
    {"post_job", "update_recruiter_job", "update_jobseeker_profile",
     "update_jobseeker_skills"}

\* The source text of an entity, from its row.
EntityText(kind, row) ==
    IF kind = "jobs"
    THEN job_text(row.title, Val(row.location), Val(row.description), Val(row.skills))
    ELSE profile_text(row.name, row.location, SkillsOf(row))

C19_RecordFollowsEntity ==
    (~IsNone(api_call) /\ Val(api_call).fn \in WriteEndpoints /\ http_status = Some(200)) =>
        LET c == Val(api_call)
            row == IF c.kind = "jobs" THEN jobs[c.id] ELSE users[c.id]
        IN  /\ StrOf(c.id) \in DOMAIN coll[c.kind]
            /\ coll[c.kind][StrOf(c.id)].document = EntityText(c.kind, row)
            /\ coll[c.kind][StrOf(c.id)].embedding
                   = generate_embeddings(EntityText(c.kind, row))

(***************************************************************************)
(* C20: /search/jobs calls search() only for a caller whose user_type is   *)
(* jobseeker and /search/candidates only for a recruiter; a caller of      *)
(* another user_type is answered 403 and search() is not called.           *)
(***************************************************************************)
\* search() has been called for the request being served.
SearchInvoked == pc \in {"parse", "sql", "vector", "merge"} \/ ~IsNone(parse_ret)

\* The user_type an endpoint is meant for.
MeantFor(endpoint) == IF endpoint = "search_jobs_endpoint" THEN "jobseeker" ELSE "recruiter"

C20_SearchOnlyForRole ==
    (~IsNone(api_call) /\ Val(api_call).fn \in SearchEndpoints) =>
        IF Val(current_user).user_type = MeantFor(Val(api_call).fn)
        THEN /\ SearchInvoked
             /\ search_type = Val(api_call).kind
             /\ http_status # Some(403)
        ELSE /\ ~SearchInvoked
             /\ http_status = Some(403)
             /\ pc = "done" /\ ~returned /\ ~raised

\* A recruiter refused by /search/jobs, over a store that holds jobs.
C20_Witness ==
    /\ ~IsNone(api_call)
    /\ Val(api_call).fn = "search_jobs_endpoint"
    /\ Val(current_user).user_type = "recruiter"
    /\ http_status = Some(403)
    /\ DOMAIN jobs # {}

(***************************************************************************)
(* C21: /login answers 401 when no user has the e-mail address, when the   *)
(* user's user_type is not the userType sent, or when the password is      *)
(* wrong; it answers 500 only for another server-side error.               *)
(***************************************************************************)
C21_LoginRefusedWith401 ==
    (~IsNone(api_call) /\ Val(api_call).fn = "login") =>
        (/\ (Val(api_call).cause = "unauthorized" => http_status = Some(401))
         /\ (http_status = Some(500) => Val(api_call).cause \notin {"unauthorized", ""}))

(***************************************************************************)
(* C28: /register answers with success and a token, and adds a record to   *)
(* the candidates collection, only when create_user inserted a user row:   *)
(* when create_user returns None there is no success response and no       *)
(* vector record with the key 'None'.                                      *)
(***************************************************************************)
C28_RegisterNeedsUserRow ==
    /\ "None" \notin DOMAIN coll["candidates"]
    /\ (~IsNone(api_call) /\ Val(api_call).fn = "register" /\ http_status = Some(200))
           => Val(api_call).id \in DOMAIN users

(***************************************************************************)
(* C26: after any sequence of register, update_jobseeker_profile and       *)
(* update_jobseeker_skills calls, every key of the candidates collection   *)
(* is str(id) of a user whose user_type is jobseeker, and so every row     *)
(* that get_candidates_by_ids fetches for the keys of the collection is a  *)
(* jobseeker's.                                                            *)
(***************************************************************************)
\* The keys of the candidates collection, as a query matching all of them
\* returns them.
CandidateKeys ==
    LET S == DOMAIN coll["candidates"]
    IN  CHOOSE s \in [1..Cardinality(S) -> S] : Range(s) = S

C26_CandidatesAreJobseekers ==
    /\ \A x \in DOMAIN coll["candidates"] :
           /\ IsDigit(x)
           /\ IntOf(x) \in DOMAIN users
           /\ users[IntOf(x)].user_type = "jobseeker"
    /\ LET docs == get_candidates_by_ids(users, "ok", VectorIds(CandidateKeys))
       IN  \A k \in DOMAIN docs : docs[k].user_type = "jobseeker"

(***************************************************************************)
(* C23: a call of update_recruiter_job or delete_recruiter_job changes a   *)
(* job only when the caller is a recruiter and the job's recruiter_id is   *)
(* the caller's id; when the job does not exist or belongs to another      *)
(* recruiter, the jobs table and the jobs collection are left as they      *)
(* were.  No call changes a job other than the one it names.               *)
(***************************************************************************)
C23_OnlyOwnerChangesJob ==
    [][LET c == Val(api_call')
           u == Val(current_user').user_id
       IN  c.fn \in {"update_recruiter_job", "delete_recruiter_job"} =>
               /\ \A j \in DOMAIN jobs \ {c.id} : j \in DOMAIN jobs' /\ jobs'[j] = jobs[j]
               /\ DOMAIN jobs' \subseteq DOMAIN jobs
               /\ ~(/\ users[u].user_type = "recruiter"
                    /\ c.id \in DOMAIN jobs
                    /\ jobs[c.id].recruiter_id = u)
                      => /\ jobs' = jobs
                         /\ coll'["jobs"] = coll["jobs"]
                         /\ http_status' # Some(200)]_vars

\* A recruiter has called one of the two endpoints for a job of another
\* recruiter, and the job is still there.
C23_Witness ==
    /\ ~IsNone(api_call)
    /\ Val(api_call).fn \in {"update_recruiter_job", "delete_recruiter_job"}
    /\ Val(api_call).cause = "not_found"
    /\ Val(api_call).id \in DOMAIN jobs
    /\ jobs[Val(api_call).id].recruiter_id # Val(current_user).user_id
    /\ StrOf(Val(api_call).id) \in DOMAIN coll["jobs"]

(***************************************************************************)
(* C25: once the requests made have completed, every identifier in the     *)
(* jobs collection is str(id) of a job in the jobs table: a job that was   *)
(* deleted has no vector record left.                                      *)
(***************************************************************************)
C25_JobsCollectionFollowsTable ==
    \A x \in DOMAIN coll["jobs"] : IsDigit(x) /\ IntOf(x) \in DOMAIN jobs

(***************************************************************************)
(* C30: when post_job or update_recruiter_job answers with an error        *)
(* because writing the vector record failed, the request has left the      *)
(* jobs table as it was: the row and the record are written together or    *)
(* not at all.                                                             *)
(***************************************************************************)
C30_RowAndRecordTogether ==
    [][(/\ Val(api_call').fn \in {"post_job", "update_recruiter_job"}
        /\ Val(api_call').cause = "vector")
           => /\ http_status' = Some(500)
              /\ jobs' = jobs]_vars

(***************************************************************************)
(* C24: every job in the list search() returns is a row the jobs table     *)
(* holds when the identifiers are resolved; the vector record left behind  *)
(* by a deleted job gives no entry of the list.                            *)
(***************************************************************************)
\* The identifiers in the jobs collection of jobs that are no longer in the
\* table.
StaleJobIds == {IntOf(x) : x \in {y \in DOMAIN coll["jobs"] : IsDigit(y)}} \ DOMAIN jobs

C24_NoEntryForDeletedJob ==
    (search_type = "jobs" /\ pc = "done" /\ IsNone(query_ret)) =>
        /\ \A k \in DOMAIN combined_results :
              /\ combined_results[k].id \in DOMAIN jobs
              /\ combined_results[k] = jobs[combined_results[k].id]
        /\ IdsOf(combined_results) \cap StaleJobIds = {}
        /\ ~IsNone(vector_docs) => IdsOf(Val(vector_docs)) \cap StaleJobIds = {}

\* A jobs search whose vector matches include the record of a deleted job
\* has fetched the rows of its matches and returned a list.
C24_Witness ==
    /\ SearchReturned
    /\ search_type = "jobs"
    /\ ~IsNone(vector_results)
    /\ \E k \in DOMAIN MatchIds : IsDigit(MatchIds[k]) /\ IntOf(MatchIds[k]) \in StaleJobIds
    /\ ~IsNone(vector_docs)
    /\ Val(vector_docs) # <<>>
    /\ combined_results # <<>>

(***************************************************************************)
(* C27: the list returned by the search() of backend/search_engine.py      *)
(* holds no two entries with the same id, also when update_recruiter_job   *)
(* changes a job after the structured query read it and before the rows    *)
(* of the vector matches are fetched.                                      *)
(***************************************************************************)
C27_LegacyNoDuplicateIds ==
    (pc = "done" /\ returned) => NoDuplicateIds(combined_results)

(***************************************************************************)
(* C22: after any sequence or interleaving of apply_for_job requests, the  *)
(* applications table holds at most one row for a pair of job_id and       *)
(* jobseeker_id, and every row is for a job the jobs table holds.          *)
(***************************************************************************)
\* Every request accepted has been answered.
Quiescent == \A r \in DOMAIN inflight : inflight[r].pc = "done"

C22_OneApplicationPerPair ==
    Quiescent =>
        /\ \A i, j \in DOMAIN applications :
               i # j => applications[i] # applications[j]
        /\ \A k \in DOMAIN applications : applications[k].job_id \in DOMAIN jobs

(***************************************************************************)
(* C29: when two requests that change the same entity are served at the    *)
(* same time (two update_recruiter_job calls for one job, or                *)
(* update_jobseeker_profile and update_jobseeker_skills for one user) and  *)
(* both have been answered with success, the text of the entity's vector   *)
(* record is the one built from the row as the two requests left it.       *)
(***************************************************************************)
\* Two requests of the endpoints of the claim, for one entity, both answered
\* with success.
BothUpdated ==
    /\ Len(inflight) = 2
    /\ Quiescent
    /\ inflight[1].status = 200 /\ inflight[2].status = 200
    /\ inflight[1].id = inflight[2].id
    /\ \/ inflight[1].fn = "update_recruiter_job" /\ inflight[2].fn = "update_recruiter_job"
       \/ {inflight[1].fn, inflight[2].fn}
              = {"update_jobseeker_profile", "update_jobseeker_skills"}

C29_RecordFromFinalRow ==
    BothUpdated =>
        LET kind == IF inflight[1].fn = "update_recruiter_job" THEN "jobs" ELSE "candidates"
            id == inflight[1].id
            row == IF kind = "jobs" THEN jobs[id] ELSE users[id]
        IN  /\ StrOf(id) \in DOMAIN coll[kind]
            /\ coll[kind][StrOf(id)].document = EntityText(kind, row)

====
